---- MODULE Spec2Model ----
(***************************************************************************)
(* Model of build.rs of openshmem-sys: the compiler-wrapper probe          *)
(* (collect_args_with_prefix, unquote, probe_via_oshcc) and the build      *)
(* script's main sequence.                                                 *)
(*                                                                         *)
(* A Rust String is modelled as the sequence of its UTF-8 bytes.  An ASCII *)
(* byte is written as the one-character string of its character; the      *)
(* two-byte character U+00E9 is the lead byte "C3" followed by the         *)
(* continuation byte "A9".  Byte offsets, slicing and char boundaries are  *)
(* those of the byte sequence, as in Rust.                                 *)
(***************************************************************************)
EXTENDS Integers, Sequences, FiniteSets, TLC

VARIABLES
    uq_in,          \* harness: the characters of the token handed to unquote
    uq_out,         \* harness: what unquote returned for it
    pc,             \* position of the build script / of the probe
    oshcc,          \* probe_via_oshcc's argument
    proc,           \* the wrapper process: "none" | "running" | "exited"
    spawns,         \* processes spawned by the current probe
    status,         \* exit status of the wrapper process
    stderr,         \* what the wrapper wrote on standard error
    stdout,         \* bytes captured from the wrapper's standard output
    output,         \* the closure's `output`: stdout decoded as a String
    libs,           \* the closure's `libs`
    libdirs,        \* the closure's `libdirs`
    headerdirs,     \* the closure's `headerdirs`
    result,         \* the value probe_via_oshcc returned
    oshmem,         \* main's `oshmem`
    clang_args,     \* arguments main handed to bindgen
    emitted,        \* lines main printed for cargo, in order
    idx,            \* position of the running `for` loop of main
    abortAt,        \* the step whose panic aborted the build
    trace,          \* history: the steps executed, in order
    history,        \* harness: <<path, captured output, result>> per finished probe
    probes,         \* harness: probes started so far
    quoted          \* harness: the quoted-path input the output line was built from

vars == <<uq_in, uq_out, pc, oshcc, proc, spawns, status, stderr, stdout, output,
          libs, libdirs, headerdirs, result, oshmem, clang_args, emitted, idx,
          abortAt, trace, history, probes, quoted>>

----------------------------------------------------------------------------
(* Bounds of the model.                                                    *)

MaxTokLen == 4      \* characters of a token handed to unquote
MaxUnits == 4       \* lexical units of an exhaustively enumerated output line
MaxWords == 3       \* shell words of an output line built from RawWords
MaxPath == 4        \* characters of a quoted path
MaxProbes == 2      \* probes run one after the other by the probe harness
MaxBuildWords == 2  \* shell words of the output line of a whole build

----------------------------------------------------------------------------
(* Strings as UTF-8 byte sequences.                                        *)

DQ == "\""
SQ == "'"
BT == "BT"      \* the backtick, which a TLA+ string cannot hold
BS == "\\"
SP == " "
NL == "\n"
TAB == "\t"
Lead == "C3"
Cont == "A9"

\* The characters of the harness' inputs; EAcute is the two-byte character.
EAcute == "E9"

\* UTF-8 encoding of one character / of a sequence of characters.
EncodeChar(c) == IF c = EAcute THEN <<Lead, Cont>> ELSE <<c>>

RECURSIVE Encode(_)
Encode(cs) == IF cs = <<>> THEN <<>> ELSE EncodeChar(Head(cs)) \o Encode(Tail(cs))

\* Result values: Ok(v), Err(e) and a panic of the thread.
Ok(v) == [tag |-> "Ok", val |-> v]
Err(e) == [tag |-> "Err", val |-> e]
Panic == [tag |-> "Panic", val |-> <<>>]

\* str::is_char_boundary(i), i a byte offset from 0.
is_char_boundary(s, i) ==
    \/ i = 0
    \/ i = Len(s)
    \/ (0 < i /\ i < Len(s) /\ s[i + 1] # Cont)

\* &s[a..b]: panics when a > b, when b > len or when an end is inside a character.
slice(s, a, b) ==
    IF a <= b /\ b <= Len(s) /\ is_char_boundary(s, a) /\ is_char_boundary(s, b)
    THEN Ok(SubSeq(s, a + 1, b))
    ELSE Panic

\* s.chars().count()
chars_count(s) == Cardinality({i \in 1..Len(s) : s[i] # Cont})

\* s.chars().next().unwrap(), as the bytes of that character (s is not empty).
chars_first(s) == IF s[1] = Lead /\ Len(s) >= 2 THEN <<s[1], s[2]>> ELSE <<s[1]>>

\* s.chars().last().unwrap(), as the bytes of that character (s is not empty).
chars_last(s) ==
    IF s[Len(s)] = Cont /\ Len(s) >= 2 THEN <<s[Len(s) - 1], s[Len(s)]>> ELSE <<s[Len(s)]>>

\* String::from_utf8: Ok exactly for well-formed byte sequences.
from_utf8(bytes) ==
    IF \A i \in 1..Len(bytes) :
          /\ bytes[i] = Lead => (i < Len(bytes) /\ bytes[i + 1] = Cont)
          /\ bytes[i] = Cont => (i > 1 /\ bytes[i - 1] = Lead)
    THEN Ok(bytes)
    ELSE Err(<<>>)

\* arg.starts_with(prefix)
starts_with(arg, prefix) ==
    Len(arg) >= Len(prefix) /\ SubSeq(arg, 1, Len(prefix)) = prefix

----------------------------------------------------------------------------
(* unquote and UnquoteError.                                               *)

\* UnquoteError::new(quote)
UnquoteError_new(quote) == Err(quote)

\* The three quote characters unquote recognizes.
is_quote(c) == c \in {<<DQ>>, <<SQ>>, <<BT>>}

\* Mutant: the length test lets a one-character token through.
unquote_too_short_off_by_one(s) == chars_count(s) < 1

\* `s.chars().count() < 2`
unquote_too_short(s) == chars_count(s) < 2

\* Mutant: the closing character is kept.
unquote_strip_keeps_last(s) == slice(s, 1, Len(s))

\* `&s[1..s.len() - 1]`
unquote_strip(s) == slice(s, 1, Len(s) - 1)

\* Mutant: a token whose quote is not closed is passed through.
unquote_unclosed_passthrough(s, quote) == Ok(s)

\* `return Err(UnquoteError::new(quote))`
unquote_unclosed(s, quote) == UnquoteError_new(quote)

unquote(s) ==
    IF unquote_too_short(s) THEN Ok(s)
    ELSE LET quote == chars_first(s) IN
         IF ~is_quote(quote) THEN Ok(s)
         ELSE IF chars_last(s) # quote THEN unquote_unclosed(s, quote)
         ELSE unquote_strip(s)

----------------------------------------------------------------------------
(* shell_words::split, the tokenizer collect_args_with_prefix calls.  It   *)
(* is the crate's character automaton: states Delimiter, Backslash,        *)
(* Unquoted, UnquotedBackslash, SingleQuoted, DoubleQuoted,                *)
(* DoubleQuotedBackslash and Comment; the end of the input inside a quoted *)
(* state is the ParseError.  The automaton tests only ASCII characters, so *)
(* running it over bytes pushes the bytes of every other character         *)
(* unchanged.                                                              *)

is_blank(c) == c \in {SP, TAB, NL}

RECURSIVE split_run(_, _, _, _, _)
split_run(s, i, state, word, words) ==
    IF i > Len(s)
    THEN \* chars.next() = None
         CASE state \in {"Delimiter", "Comment"} -> Ok(words)
           [] state \in {"Backslash", "UnquotedBackslash"} ->
                  Ok(Append(words, Append(word, BS)))
           [] state = "Unquoted" -> Ok(Append(words, word))
           [] OTHER -> Err(<<>>)
    ELSE LET c == s[i] IN
         CASE state = "Delimiter" ->
                  IF c = SQ THEN split_run(s, i + 1, "SingleQuoted", word, words)
                  ELSE IF c = DQ THEN split_run(s, i + 1, "DoubleQuoted", word, words)
                  ELSE IF c = BS THEN split_run(s, i + 1, "Backslash", word, words)
                  ELSE IF is_blank(c) THEN split_run(s, i + 1, "Delimiter", word, words)
                  ELSE IF c = "#" THEN split_run(s, i + 1, "Comment", word, words)
                  ELSE split_run(s, i + 1, "Unquoted", Append(word, c), words)
           [] state = "Backslash" ->
                  IF c = NL THEN split_run(s, i + 1, "Delimiter", word, words)
                  ELSE split_run(s, i + 1, "Unquoted", Append(word, c), words)
           [] state = "Unquoted" ->
                  IF c = SQ THEN split_run(s, i + 1, "SingleQuoted", word, words)
                  ELSE IF c = DQ THEN split_run(s, i + 1, "DoubleQuoted", word, words)
                  ELSE IF c = BS THEN split_run(s, i + 1, "UnquotedBackslash", word, words)
                  ELSE IF is_blank(c)
                       THEN split_run(s, i + 1, "Delimiter", <<>>, Append(words, word))
                  ELSE split_run(s, i + 1, "Unquoted", Append(word, c), words)
           [] state = "UnquotedBackslash" ->
                  IF c = NL THEN split_run(s, i + 1, "Unquoted", word, words)
                  ELSE split_run(s, i + 1, "Unquoted", Append(word, c), words)
           [] state = "SingleQuoted" ->
                  IF c = SQ THEN split_run(s, i + 1, "Unquoted", word, words)
                  ELSE split_run(s, i + 1, "SingleQuoted", Append(word, c), words)
           [] state = "DoubleQuoted" ->
                  IF c = DQ THEN split_run(s, i + 1, "Unquoted", word, words)
                  ELSE IF c = BS
                       THEN split_run(s, i + 1, "DoubleQuotedBackslash", word, words)
                  ELSE split_run(s, i + 1, "DoubleQuoted", Append(word, c), words)
           [] state = "DoubleQuotedBackslash" ->
                  IF c = NL THEN split_run(s, i + 1, "DoubleQuoted", word, words)
                  ELSE IF c \in {"$", BT, DQ, BS}
                       THEN split_run(s, i + 1, "DoubleQuoted", Append(word, c), words)
                  ELSE split_run(s, i + 1, "DoubleQuoted",
                                 Append(Append(word, BS), c), words)
           [] OTHER -> \* Comment
                  IF c = NL THEN split_run(s, i + 1, "Delimiter", word, words)
                  ELSE split_run(s, i + 1, "Comment", word, words)

\* Mutant: the line is cut at every blank, quotes and escapes left as they are.
RECURSIVE split_blank_run(_, _, _, _)
split_blank_run(s, i, word, words) ==
    IF i > Len(s) THEN (IF word = <<>> THEN Ok(words) ELSE Ok(Append(words, word)))
    ELSE IF is_blank(s[i])
         THEN split_blank_run(s, i + 1, <<>>,
                              IF word = <<>> THEN words ELSE Append(words, word))
    ELSE split_blank_run(s, i + 1, Append(word, s[i]), words)

split_whitespace(cmd) == split_blank_run(cmd, 1, <<>>, <<>>)

\* shell_words::split(cmd)
split(cmd) == split_run(cmd, 1, "Delimiter", <<>>, <<>>)

----------------------------------------------------------------------------
(* collect_args_with_prefix.                                               *)

\* Mutant: the flag letter is compared without its case.
arg_matches_any_case(arg, prefix) ==
    \/ starts_with(arg, prefix)
    \/ starts_with(arg, <<"-", "l">>) /\ prefix = <<"-", "L">>
    \/ starts_with(arg, <<"-", "L">>) /\ prefix = <<"-", "l">>

\* `arg.starts_with(prefix)`
arg_matches(arg, prefix) == starts_with(arg, prefix)

\* `arg[2..]`
arg_tail(arg) == slice(arg, 2, Len(arg))

\* The filter_map over the tokens, in order; a panic of the closure propagates.
RECURSIVE filter_map_prefix(_, _)
filter_map_prefix(args, prefix) ==
    IF args = <<>> THEN Ok(<<>>)
    ELSE LET rest == filter_map_prefix(Tail(args), prefix) IN
         IF rest.tag = "Panic" THEN Panic
         ELSE IF arg_matches(Head(args), prefix)
              THEN LET t == arg_tail(Head(args)) IN
                   IF t.tag = "Panic" THEN Panic ELSE Ok(<<t.val>> \o rest.val)
              ELSE rest

\* collect_args_with_prefix(cmd, prefix): split(cmd).unwrap() panics on a ParseError.
collect_args_with_prefix(cmd, prefix) ==
    LET words == split(cmd) IN
    IF words.tag # "Ok" THEN Panic ELSE filter_map_prefix(words.val, prefix)

----------------------------------------------------------------------------
(* probe_via_oshcc's closure and Library.                                  *)

\* PathBuf::from(String): the path holds the string's bytes.
PathBuf_from(s) == s

\* Path::to_string_lossy: the path's bytes when they are UTF-8, else with U+FFFD.
to_string_lossy(p) == IF from_utf8(p).tag = "Ok" THEN p ELSE <<"EF", "BF", "BD">>

\* `unquote(&x).ok()` under filter_map: the Ok value, or nothing.
unquote_ok(x) == LET r == unquote(x) IN IF r.tag = "Ok" THEN <<r.val>> ELSE <<>>

\* `.into_iter().filter_map(|x| unquote(&x).ok()).map(PathBuf::from).collect()`
RECURSIVE unquote_paths(_)
unquote_paths(xs) ==
    IF xs = <<>> THEN <<>>
    ELSE LET u == unquote_ok(Head(xs)) IN
         (IF u = <<>> THEN <<>> ELSE <<PathBuf_from(u[1])>>) \o unquote_paths(Tail(xs))

\* The search directories for one flag: collect, then unquote.
collect_dirs(out, prefix) ==
    LET c == collect_args_with_prefix(out, prefix) IN
    IF c.tag # "Ok" THEN Panic ELSE Ok(unquote_paths(c.val))

FlagLib == <<"-", "l">>
FlagLibDir == <<"-", "L">>
FlagInclude == <<"-", "I">>

\* struct Library, as the closure fills it.
Library(cc, l, ld, hd) ==
    [oshcc |-> cc, libs |-> l, lib_paths |-> ld, include_paths |-> hd,
     version |-> "unknown"]

NoLibrary == [oshcc |-> "", libs |-> <<>>, lib_paths |-> <<>>, include_paths |-> <<>>,
              version |-> ""]

\* The closure given to map, applied to the captured standard output.
probe_closure(cc, bytes) ==
    LET text == from_utf8(bytes) IN
    IF text.tag # "Ok" THEN [tag |-> "Panic", val |-> NoLibrary]
    ELSE LET l == collect_args_with_prefix(text.val, FlagLib)
             ld == collect_dirs(text.val, FlagLibDir)
             hd == collect_dirs(text.val, FlagInclude)
         IN IF l.tag # "Ok" \/ ld.tag # "Ok" \/ hd.tag # "Ok"
            THEN [tag |-> "Panic", val |-> NoLibrary]
            ELSE Ok(Library(cc, l.val, ld.val, hd.val))

----------------------------------------------------------------------------
(* Inputs.                                                                 *)

SeqsUpTo(S, n) == UNION {[1..k -> S] : k \in 0..n}

RECURSIVE Flatten(_)
Flatten(ss) == IF ss = <<>> THEN <<>> ELSE Head(ss) \o Flatten(Tail(ss))

\* Words joined by one space each.
RECURSIVE Join(_)
Join(ws) ==
    IF ws = <<>> THEN <<>>
    ELSE IF Len(ws) = 1 THEN ws[1]
    ELSE ws[1] \o <<SP>> \o Join(Tail(ws))

\* Tokens handed to unquote: every character sequence up to MaxTokLen.
TokenChars == {DQ, SQ, BT, "a", EAcute}
Tokens == SeqsUpTo(TokenChars, MaxTokLen)

\* Output lines, exhaustively: every sequence of up to MaxUnits of these units.
LineUnits == {FlagLib, FlagLibDir, FlagInclude, <<"a">>, <<SP>>, <<DQ>>, <<SQ>>,
              <<BT>>, <<BS>>}
UnitLines == {Flatten(us) : us \in SeqsUpTo(LineUnits, MaxUnits)}

\* Output lines built from the words of a compiler command line.
WordCc == <<"c", "c">>
WordLibFoo == <<"-", "l", "f", "o", "o">>
WordLibDirUsr == <<"-", "L", "/", "u", "s", "r", "/", "l", "i", "b">>
WordIncUsr == <<"-", "I", "/", "u", "s", "r", "/", "i", "n", "c", "l", "u", "d", "e">>
\* -L, then /usr/lib foo in double quotes
WordLibDirQuoted ==
    <<"-", "L", DQ, "/", "u", "s", "r", "/", "l", "i", "b", SP, "f", "o", "o", DQ>>
\* -I, then a in single quotes, in double quotes: the token keeps the single quotes
WordIncQuotedTwice == <<"-", "I", DQ, SQ, "a", SQ, DQ>>
\* -L, an escaped single quote, a: the token opens a quote it never closes
WordLibDirUnclosed == <<"-", "L", BS, SQ, "a">>
\* -I, an escaped double quote, a, an escaped backtick: closed by another quote
WordIncUnclosed == <<"-", "I", BS, DQ, "a", BS, BT>>
\* -L, a double quote, a: unbalanced shell quoting
WordUnbalanced == <<"-", "L", DQ, "a">>
\* -Wl,-lx: another prefix, with -l inside
WordLinkerArg == <<"-", "W", "l", ",", "-", "l", "x">>
\* -L alone
WordLibDirBare == <<"-", "L">>
\* -I and a two-byte character
WordIncAccent == <<"-", "I", Lead, Cont>>
\* -l, then b in single quotes
WordLibQuoted == <<"-", "l", SQ, "b", SQ>>

RawWords == {WordCc, WordLibFoo, WordLibDirUsr, WordIncUsr, WordLibDirQuoted,
             WordIncQuotedTwice, WordLibDirUnclosed, WordIncUnclosed, WordUnbalanced,
             WordLinkerArg, WordLibDirBare, WordIncAccent, WordLibQuoted}
WordLines == {Join(ws) : ws \in SeqsUpTo(RawWords, MaxWords)}

Lines == UnitLines \cup WordLines

\* Quoted paths: up to MaxPath characters, a space inside, none at the ends.
PathChars == {"a", "/", SP, EAcute}
QuotedPaths ==
    {p \in SeqsUpTo(PathChars, MaxPath) :
        /\ Len(p) >= 3
        /\ p[1] # SP /\ p[Len(p)] # SP
        /\ \E i \in 2..(Len(p) - 1) : p[i] = SP}

\* What stands before and after the quoted flag on the line; none of it is a path.
QuotedBefore == {<<>>, WordCc \o <<SP>>, WordLibFoo \o <<SP>>}
QuotedAfter == {<<>>, <<SP>> \o WordLibFoo, <<SP>> \o WordLinkerArg}

\* The line of a quoted-path input: the quotes after the flag, or around the word.
QuotedLine(q) ==
    LET flag == <<"-", q.flag>>
        word == IF q.form = "after"
                THEN flag \o <<q.quote>> \o Encode(q.path) \o <<q.quote>>
                ELSE <<q.quote>> \o flag \o Encode(q.path) \o <<q.quote>>
    IN q.before \o word \o q.after

NoQuoted == [flag |-> "", quote |-> "", form |-> "", path |-> <<>>,
             before |-> <<>>, after |-> <<>>]

NotCalled == [tag |-> "None", val |-> <<>>]
NoResult == [tag |-> "None", val |-> NoLibrary]

----------------------------------------------------------------------------
(* Harness of unquote: one call on one token.                              *)

\* Everything of the build at rest.
BuildAtRest ==
    /\ pc = "rest" /\ oshcc = "" /\ proc = "none" /\ spawns = 0
    /\ status = 0 /\ stderr = <<>> /\ stdout = <<>> /\ output = <<>>
    /\ libs = <<>> /\ libdirs = <<>> /\ headerdirs = <<>>
    /\ result = NoResult /\ oshmem = NoLibrary /\ clang_args = <<>>
    /\ emitted = <<>> /\ idx = 0 /\ abortAt = "" /\ trace = <<>>
    /\ history = {} /\ probes = 0 /\ quoted = NoQuoted

buildVars == <<pc, oshcc, proc, spawns, status, stderr, stdout, output, libs, libdirs,
               headerdirs, result, oshmem, clang_args, emitted, idx, abortAt, trace,
               history, probes, quoted>>

InitUnquote ==
    /\ uq_in \in Tokens
    /\ uq_out = NotCalled
    /\ BuildAtRest

CallUnquote ==
    /\ pc = "rest"
    /\ uq_out = NotCalled
    /\ uq_out' = unquote(Encode(uq_in))
    /\ UNCHANGED <<uq_in, buildVars>>

NextUnquote == CallUnquote

SpecUnquote == InitUnquote /\ [][NextUnquote]_vars

----------------------------------------------------------------------------
(* Harness of the probe's closure: one application to one captured output. *)

InitParse ==
    /\ uq_in = <<>> /\ uq_out = NotCalled
    /\ pc = "closure" /\ oshcc = "oshcc" /\ proc = "exited" /\ spawns = 1
    /\ status = 0 /\ stderr = <<>>
    /\ stdout \in Lines
    /\ output = <<>> /\ libs = <<>> /\ libdirs = <<>> /\ headerdirs = <<>>
    /\ result = NoResult /\ oshmem = NoLibrary /\ clang_args = <<>>
    /\ emitted = <<>> /\ idx = 0 /\ abortAt = "" /\ trace = <<>>
    /\ history = {} /\ probes = 0 /\ quoted = NoQuoted

InitQuoted ==
    /\ uq_in = <<>> /\ uq_out = NotCalled
    /\ pc = "closure" /\ oshcc = "oshcc" /\ proc = "exited" /\ spawns = 1
    /\ status = 0 /\ stderr = <<>>
    /\ quoted \in [flag : {"L", "I"}, quote : {DQ, SQ}, form : {"after", "around"},
                   path : QuotedPaths, before : QuotedBefore, after : QuotedAfter]
    /\ stdout = QuotedLine(quoted)
    /\ output = <<>> /\ libs = <<>> /\ libdirs = <<>> /\ headerdirs = <<>>
    /\ result = NoResult /\ oshmem = NoLibrary /\ clang_args = <<>>
    /\ emitted = <<>> /\ idx = 0 /\ abortAt = "" /\ trace = <<>>
    /\ history = {} /\ probes = 0

ApplyClosure ==
    /\ pc = "closure"
    /\ result' = probe_closure(oshcc, stdout)
    /\ pc' = "applied"
    /\ UNCHANGED <<uq_in, uq_out, oshcc, proc, spawns, status, stderr, stdout, output,
                   libs, libdirs, headerdirs, oshmem, clang_args, emitted, idx,
                   abortAt, trace, history, probes, quoted>>

NextParse == ApplyClosure

SpecParse == InitParse /\ [][NextParse]_vars

SpecQuoted == InitQuoted /\ [][NextParse]_vars

----------------------------------------------------------------------------
(* probe_via_oshcc, step by step.                                          *)

Step(name, ok) == [step |-> name, ok |-> ok]

IoError == [tag |-> "Err", val |-> NoLibrary]

\* Mutant: a wrapper that exits with a failure status makes output() an error.
command_output_checks_status(st) == IF st = 0 THEN "Ok" ELSE "Err"

\* Command::output() once the process has run: Ok(Output) whatever the exit status.
command_output(st) == "Ok"

\* Command::new(oshcc).arg("-show").output(): the process is spawned, or the call
\* returns the io::Error, which map leaves as it is.
Spawn ==
    /\ pc = "spawn"
    /\ \E ok \in BOOLEAN :
        /\ trace' = Append(trace, Step("spawn", ok))
        /\ IF ok
           THEN /\ proc' = "running" /\ spawns' = spawns + 1 /\ pc' = "wait"
                /\ UNCHANGED result
           ELSE /\ result' = IoError /\ pc' = "returned"
                /\ UNCHANGED <<proc, spawns>>
    /\ UNCHANGED <<uq_in, uq_out, oshcc, status, stderr, stdout, output, libs, libdirs,
                   headerdirs, oshmem, clang_args, emitted, idx, abortAt, history,
                   probes, quoted>>

\* output() waits for the process and captures all it wrote; outs are the
\* standard outputs the wrapper may produce.
Exit(outs) ==
    /\ pc = "wait" /\ proc = "running"
    /\ \E st \in {0, 1}, out \in outs, err \in {<<>>, <<"e">>} :
        /\ proc' = "exited" /\ status' = st /\ stdout' = out /\ stderr' = err
        /\ IF command_output(st) = "Ok"
           THEN pc' = "decode" /\ UNCHANGED result
           ELSE pc' = "returned" /\ result' = IoError
    /\ UNCHANGED <<uq_in, uq_out, oshcc, spawns, output, libs, libdirs, headerdirs,
                   oshmem, clang_args, emitted, idx, abortAt, trace, history, probes,
                   quoted>>

\* String::from_utf8(cmd.stdout).expect(..)
Decode ==
    /\ pc = "decode"
    /\ LET text == from_utf8(stdout) IN
        /\ trace' = Append(trace, Step("decode", text.tag = "Ok"))
        /\ IF text.tag = "Ok"
           THEN output' = text.val /\ pc' = "libs" /\ UNCHANGED abortAt
           ELSE pc' = "aborted" /\ abortAt' = "decode" /\ UNCHANGED output
    /\ UNCHANGED <<uq_in, uq_out, oshcc, proc, spawns, status, stderr, stdout, libs,
                   libdirs, headerdirs, result, oshmem, clang_args, emitted, idx,
                   history, probes, quoted>>

\* Mutant: the libraries are pushed onto a vector that outlives the call.
CollectLibsShared ==
    /\ pc = "libs"
    /\ LET c == collect_args_with_prefix(output, FlagLib) IN
        /\ trace' = Append(trace, Step("libs", c.tag = "Ok"))
        /\ IF c.tag = "Ok"
           THEN libs' = libs \o c.val /\ pc' = "libdirs" /\ UNCHANGED abortAt
           ELSE pc' = "aborted" /\ abortAt' = "libs" /\ UNCHANGED libs
    /\ UNCHANGED <<uq_in, uq_out, oshcc, proc, spawns, status, stderr, stdout, output,
                   libdirs, headerdirs, result, oshmem, clang_args, emitted, idx,
                   history, probes, quoted>>

\* let libs = collect_args_with_prefix(output.as_ref(), "-l");
CollectLibs ==
    /\ pc = "libs"
    /\ LET c == collect_args_with_prefix(output, FlagLib) IN
        /\ trace' = Append(trace, Step("libs", c.tag = "Ok"))
        /\ IF c.tag = "Ok"
           THEN libs' = c.val /\ pc' = "libdirs" /\ UNCHANGED abortAt
           ELSE pc' = "aborted" /\ abortAt' = "libs" /\ UNCHANGED libs
    /\ UNCHANGED <<uq_in, uq_out, oshcc, proc, spawns, status, stderr, stdout, output,
                   libdirs, headerdirs, result, oshmem, clang_args, emitted, idx,
                   history, probes, quoted>>

\* let libdirs = collect_args_with_prefix(output.as_ref(), "-L") ... .collect();
CollectLibDirs ==
    /\ pc = "libdirs"
    /\ LET c == collect_dirs(output, FlagLibDir) IN
        /\ trace' = Append(trace, Step("libdirs", c.tag = "Ok"))
        /\ IF c.tag = "Ok"
           THEN libdirs' = c.val /\ pc' = "headerdirs" /\ UNCHANGED abortAt
           ELSE pc' = "aborted" /\ abortAt' = "libdirs" /\ UNCHANGED libdirs
    /\ UNCHANGED <<uq_in, uq_out, oshcc, proc, spawns, status, stderr, stdout, output,
                   libs, headerdirs, result, oshmem, clang_args, emitted, idx,
                   history, probes, quoted>>

\* let headerdirs = collect_args_with_prefix(output.as_ref(), "-I") ... .collect();
CollectHeaderDirs ==
    /\ pc = "headerdirs"
    /\ LET c == collect_dirs(output, FlagInclude) IN
        /\ trace' = Append(trace, Step("headerdirs", c.tag = "Ok"))
        /\ IF c.tag = "Ok"
           THEN headerdirs' = c.val /\ pc' = "construct" /\ UNCHANGED abortAt
           ELSE pc' = "aborted" /\ abortAt' = "headerdirs" /\ UNCHANGED headerdirs
    /\ UNCHANGED <<uq_in, uq_out, oshcc, proc, spawns, status, stderr, stdout, output,
                   libs, libdirs, result, oshmem, clang_args, emitted, idx,
                   history, probes, quoted>>

\* Library { oshcc: Some(oshcc.to_string()), libs, lib_paths: libdirs, .. }
Construct ==
    /\ pc = "construct"
    /\ result' = Ok(Library(oshcc, libs, libdirs, headerdirs))
    /\ pc' = "returned"
    /\ UNCHANGED <<uq_in, uq_out, oshcc, proc, spawns, status, stderr, stdout, output,
                   libs, libdirs, headerdirs, oshmem, clang_args, emitted, idx,
                   abortAt, trace, history, probes, quoted>>

----------------------------------------------------------------------------
(* Harness of probe_via_oshcc: up to MaxProbes calls, one after the other. *)

HarnessPaths == {"oshcc", "mpicc"}
HarnessOutputs == {<<>>, WordLibFoo, Join(<<WordLibDirUsr, WordLibDirUnclosed>>),
                   WordUnbalanced}

InitProbes ==
    /\ uq_in = <<>> /\ uq_out = NotCalled
    /\ pc = "idle" /\ oshcc = "" /\ proc = "none" /\ spawns = 0
    /\ status = 0 /\ stderr = <<>> /\ stdout = <<>> /\ output = <<>>
    /\ libs = <<>> /\ libdirs = <<>> /\ headerdirs = <<>>
    /\ result = NoResult /\ oshmem = NoLibrary /\ clang_args = <<>>
    /\ emitted = <<>> /\ idx = 0 /\ abortAt = "" /\ trace = <<>>
    /\ history = {} /\ probes = 0 /\ quoted = NoQuoted

\* A call of probe_via_oshcc(path).
HarnessCall ==
    /\ pc = "idle"
    /\ probes < MaxProbes
    /\ \E path \in HarnessPaths : oshcc' = path
    /\ pc' = "spawn" /\ proc' = "none" /\ spawns' = 0
    /\ probes' = probes + 1
    /\ UNCHANGED <<uq_in, uq_out, status, stderr, stdout, output, libs, libdirs,
                   headerdirs, result, oshmem, clang_args, emitted, idx, abortAt,
                   trace, history, quoted>>

\* The call has returned: what it was given and what it returned is noted.
HarnessReturn ==
    /\ pc = "returned"
    /\ history' = IF proc = "exited"
                  THEN history \cup {<<oshcc, stdout, result>>}
                  ELSE history
    /\ pc' = "idle"
    /\ UNCHANGED <<uq_in, uq_out, oshcc, proc, spawns, status, stderr, stdout, output,
                   libs, libdirs, headerdirs, result, oshmem, clang_args, emitted, idx,
                   abortAt, trace, probes, quoted>>

NextProbes ==
    \/ HarnessCall
    \/ Spawn
    \/ Exit(HarnessOutputs)
    \/ Decode
    \/ CollectLibs
    \/ CollectLibDirs
    \/ CollectHeaderDirs
    \/ Construct
    \/ HarnessReturn

SpecProbes == InitProbes /\ [][NextProbes]_vars

----------------------------------------------------------------------------
(* main.                                                                   *)

BuildWords == {WordCc, WordLibFoo, WordLibDirUsr, WordIncUsr, WordLibDirUnclosed,
               WordUnbalanced}

\* What the wrapper may write: lines of up to MaxBuildWords words, and bytes
\* that are not UTF-8.
BuildOutputs ==
    {Join(ws) : ws \in SeqsUpTo(BuildWords, MaxBuildWords)} \cup {<<"-", "l", Cont>>}

Directive(key, val) == [key |-> key, val |-> val]

\* println!("cargo:rerun-if-changed=include/wrapper.h")
RerunDirective == Directive("cargo:rerun-if-changed", <<"include/wrapper.h">>)

\* println!("cargo:rustc-link-search={}", path.to_string_lossy())
LinkSearchDirective(path) == Directive("cargo:rustc-link-search", to_string_lossy(path))

\* println!("cargo:include={}", path.to_string_lossy())
IncludeDirective(path) == Directive("cargo:include", to_string_lossy(path))

\* println!("cargo:rustc-link-lib={}", lib)
LinkLibDirective(lib) == Directive("cargo:rustc-link-lib", lib)

Init ==
    /\ uq_in = <<>> /\ uq_out = NotCalled
    /\ pc = "main" /\ oshcc = "" /\ proc = "none" /\ spawns = 0
    /\ status = 0 /\ stderr = <<>> /\ stdout = <<>> /\ output = <<>>
    /\ libs = <<>> /\ libdirs = <<>> /\ headerdirs = <<>>
    /\ result = NoResult /\ oshmem = NoLibrary /\ clang_args = <<>>
    /\ emitted = <<>> /\ idx = 0 /\ abortAt = "" /\ trace = <<>>
    /\ history = {} /\ probes = 0 /\ quoted = NoQuoted

\* probe_via_oshcc("oshcc")
MainProbe ==
    /\ pc = "main"
    /\ oshcc' = "oshcc"
    /\ pc' = "spawn"
    /\ probes' = probes + 1
    /\ UNCHANGED <<uq_in, uq_out, proc, spawns, status, stderr, stdout, output, libs,
                   libdirs, headerdirs, result, oshmem, clang_args, emitted, idx,
                   abortAt, trace, history, quoted>>

\* Mutant: a probe that failed is replaced by an empty Library and the build goes on.
MainUnwrapOrDefault ==
    /\ pc = "returned"
    /\ oshmem' = IF result.tag = "Ok" THEN result.val
                 ELSE Library("oshcc", <<>>, <<>>, <<>>)
    /\ pc' = "generate"
    /\ UNCHANGED <<uq_in, uq_out, oshcc, proc, spawns, status, stderr, stdout, output,
                   libs, libdirs, headerdirs, result, clang_args, emitted, idx,
                   abortAt, trace, history, probes, quoted>>

\* let oshmem = probe_via_oshcc("oshcc").unwrap();
MainUnwrap ==
    /\ pc = "returned"
    /\ IF result.tag = "Ok"
       THEN oshmem' = result.val /\ pc' = "generate" /\ UNCHANGED abortAt
       ELSE pc' = "aborted" /\ abortAt' = "spawn" /\ UNCHANGED oshmem
    /\ UNCHANGED <<uq_in, uq_out, oshcc, proc, spawns, status, stderr, stdout, output,
                   libs, libdirs, headerdirs, result, clang_args, emitted, idx,
                   trace, history, probes, quoted>>

\* The clang_args iterator: format!("-I{}", p.to_string_lossy()) per include path.
ClangArgs(lib) ==
    [i \in 1..Len(lib.include_paths) |->
        FlagInclude \o to_string_lossy(lib.include_paths[i])]

\* Mutant: the rerun-if-changed line is printed before the bindings are generated.
GenerateAfterRerun ==
    /\ pc = "generate"
    /\ clang_args' = ClangArgs(oshmem)
    /\ emitted' = Append(emitted, RerunDirective)
    /\ \E ok \in BOOLEAN :
        /\ trace' = Append(trace, Step("generate", ok))
        /\ IF ok
           THEN pc' = "linksearch" /\ UNCHANGED abortAt
           ELSE pc' = "aborted" /\ abortAt' = "generate"
    /\ idx' = 0
    /\ UNCHANGED <<uq_in, uq_out, oshcc, proc, spawns, status, stderr, stdout, output,
                   libs, libdirs, headerdirs, result, oshmem, history, probes, quoted>>

\* bindgen::Builder::default().clang_args(..) ... .generate().expect(..)
Generate ==
    /\ pc = "generate"
    /\ clang_args' = ClangArgs(oshmem)
    /\ \E ok \in BOOLEAN :
        /\ trace' = Append(trace, Step("generate", ok))
        /\ IF ok
           THEN pc' = "rerun" /\ UNCHANGED abortAt
           ELSE pc' = "aborted" /\ abortAt' = "generate"
    /\ UNCHANGED <<uq_in, uq_out, oshcc, proc, spawns, status, stderr, stdout, output,
                   libs, libdirs, headerdirs, result, oshmem, emitted, idx, history,
                   probes, quoted>>

EmitRerun ==
    /\ pc = "rerun"
    /\ emitted' = Append(emitted, RerunDirective)
    /\ trace' = Append(trace, Step("rerun", TRUE))
    /\ pc' = "linksearch" /\ idx' = 0
    /\ UNCHANGED <<uq_in, uq_out, oshcc, proc, spawns, status, stderr, stdout, output,
                   libs, libdirs, headerdirs, result, oshmem, clang_args, abortAt,
                   history, probes, quoted>>

\* for path in oshmem.lib_paths { println!(..) }: one turn, or the loop's end.
EmitLinkSearch ==
    /\ pc = "linksearch"
    /\ IF idx < Len(oshmem.lib_paths)
       THEN /\ emitted' = Append(emitted, LinkSearchDirective(oshmem.lib_paths[idx + 1]))
            /\ trace' = Append(trace, Step("linksearch", TRUE))
            /\ idx' = idx + 1
            /\ UNCHANGED pc
       ELSE /\ pc' = "include" /\ idx' = 0
            /\ UNCHANGED <<emitted, trace>>
    /\ UNCHANGED <<uq_in, uq_out, oshcc, proc, spawns, status, stderr, stdout, output,
                   libs, libdirs, headerdirs, result, oshmem, clang_args, abortAt,
                   history, probes, quoted>>

\* for path in oshmem.include_paths { println!(..) }
EmitInclude ==
    /\ pc = "include"
    /\ IF idx < Len(oshmem.include_paths)
       THEN /\ emitted' = Append(emitted, IncludeDirective(oshmem.include_paths[idx + 1]))
            /\ trace' = Append(trace, Step("include", TRUE))
            /\ idx' = idx + 1
            /\ UNCHANGED pc
       ELSE /\ pc' = "linklib" /\ idx' = 0
            /\ UNCHANGED <<emitted, trace>>
    /\ UNCHANGED <<uq_in, uq_out, oshcc, proc, spawns, status, stderr, stdout, output,
                   libs, libdirs, headerdirs, result, oshmem, clang_args, abortAt,
                   history, probes, quoted>>

\* for lib in oshmem.libs { println!(..) }
EmitLinkLib ==
    /\ pc = "linklib"
    /\ IF idx < Len(oshmem.libs)
       THEN /\ emitted' = Append(emitted, LinkLibDirective(oshmem.libs[idx + 1]))
            /\ trace' = Append(trace, Step("linklib", TRUE))
            /\ idx' = idx + 1
            /\ UNCHANGED pc
       ELSE /\ pc' = "outdir" /\ idx' = 0
            /\ UNCHANGED <<emitted, trace>>
    /\ UNCHANGED <<uq_in, uq_out, oshcc, proc, spawns, status, stderr, stdout, output,
                   libs, libdirs, headerdirs, result, oshmem, clang_args, abortAt,
                   history, probes, quoted>>

\* PathBuf::from(env::var("OUT_DIR").unwrap())
OutDir ==
    /\ pc = "outdir"
    /\ \E ok \in BOOLEAN :
        /\ trace' = Append(trace, Step("outdir", ok))
        /\ IF ok
           THEN pc' = "write" /\ UNCHANGED abortAt
           ELSE pc' = "aborted" /\ abortAt' = "outdir"
    /\ UNCHANGED <<uq_in, uq_out, oshcc, proc, spawns, status, stderr, stdout, output,
                   libs, libdirs, headerdirs, result, oshmem, clang_args, emitted, idx,
                   history, probes, quoted>>

\* bindings.write_to_file(out_path.join("bindings.rs")).expect(..)
Write ==
    /\ pc = "write"
    /\ \E ok \in BOOLEAN :
        /\ trace' = Append(trace, Step("write", ok))
        /\ IF ok
           THEN pc' = "done" /\ UNCHANGED abortAt
           ELSE pc' = "aborted" /\ abortAt' = "write"
    /\ UNCHANGED <<uq_in, uq_out, oshcc, proc, spawns, status, stderr, stdout, output,
                   libs, libdirs, headerdirs, result, oshmem, clang_args, emitted, idx,
                   history, probes, quoted>>

Next ==
    \/ MainProbe
    \/ Spawn
    \/ Exit(BuildOutputs)
    \/ Decode
    \/ CollectLibs
    \/ CollectLibDirs
    \/ CollectHeaderDirs
    \/ Construct
    \/ MainUnwrap
    \/ Generate
    \/ EmitRerun
    \/ EmitLinkSearch
    \/ EmitInclude
    \/ EmitLinkLib
    \/ OutDir
    \/ Write

Spec == Init /\ [][Next]_vars

----------------------------------------------------------------------------
(* Properties of unquote (SpecUnquote).                                    *)

QuoteChars == {DQ, SQ, BT}
Called == uq_out # NotCalled

\* C1: unquote returns Ok with the token unchanged for every token of fewer
\* than two characters (the empty token, a lone quote character) and for every
\* token whose first character is not a double quote, single quote or backtick;
\* it returns anything else only for a token of at least two characters that
\* starts with one of the three.
C1_UnquoteIdentity ==
    Called =>
        /\ (Len(uq_in) < 2 \/ uq_in[1] \notin QuoteChars) => uq_out = Ok(Encode(uq_in))
        /\ uq_out # Ok(Encode(uq_in)) => (Len(uq_in) >= 2 /\ uq_in[1] \in QuoteChars)

C1_Witness == Called /\ uq_in = <<SQ>> /\ uq_out = Ok(<<SQ>>)

\* C2: for a token of at least two characters that starts with a quote
\* character and ends with the same one, unquote returns Ok with exactly the
\* first and the last character removed and everything between unchanged.
C2_UnquoteStripsOneLayer ==
    (Called /\ Len(uq_in) >= 2 /\ uq_in[1] \in QuoteChars /\ uq_in[Len(uq_in)] = uq_in[1])
        => uq_out = Ok(Encode(SubSeq(uq_in, 2, Len(uq_in) - 1)))

C2_Witness == Called /\ uq_in = <<DQ, SQ, DQ, DQ>> /\ uq_out = Ok(<<SQ, DQ>>)

\* C3: for a token of at least two characters that starts with a quote
\* character q and does not end with q, unquote returns the UnquoteError whose
\* quote is q, and no string.
C3_UnquoteUnclosedIsError ==
    (Called /\ Len(uq_in) >= 2 /\ uq_in[1] \in QuoteChars /\ uq_in[Len(uq_in)] # uq_in[1])
        => uq_out = Err(<<uq_in[1]>>)

C3_Witness == Called /\ uq_in = <<BT, "a", SQ>> /\ uq_out = Err(<<BT>>)

----------------------------------------------------------------------------
(* Properties of the probe's closure (SpecParse, SpecQuoted).              *)

Applied == pc = "applied"

\* The positions of the tokens that start with "-" and the flag letter f.
FlagIdx(toks, f) ==
    {i \in 1..Len(toks) : Len(toks[i]) >= 2 /\ toks[i][1] = "-" /\ toks[i][2] = f}
Rank(S, i) == Cardinality({j \in S : j <= i})
Drop2(t) == SubSeq(t, 3, Len(t))

\* list holds, in token order, Drop2 of every token with flag f, and nothing else.
ExactlyStripped(list, toks, f) ==
    LET at == FlagIdx(toks, f) IN
    /\ Len(list) = Cardinality(at)
    /\ \A i \in at : list[Rank(at, i)] = Drop2(toks[i])

Unclosed(t) == Len(t) >= 2 /\ t[1] \in QuoteChars /\ t[Len(t)] # t[1]
Closed(t) == Len(t) >= 2 /\ t[1] \in QuoteChars /\ t[Len(t)] = t[1]
Bare(t) == IF Closed(t) THEN SubSeq(t, 2, Len(t) - 1) ELSE t
PathIdx(toks, f) == {i \in FlagIdx(toks, f) : ~Unclosed(Drop2(toks[i]))}

\* list holds, in token order, Drop2 of every token with flag f less one layer of
\* closed quotes; a token whose quote is not closed is left out.
StrippedAndUnquoted(list, toks, f) ==
    LET at == PathIdx(toks, f) IN
    /\ Len(list) = Cardinality(at)
    /\ \A i \in at : list[Rank(at, i)] = Bare(Drop2(toks[i]))

\* C4 as claimed, on the lines where no path opens a quote it does not close:
\* for a line that tokenizes, the three lists are exactly the -l, -L and -I
\* tokens with the two-character prefix removed, in order, duplicates kept.
C4_ListsArePrefixStripped ==
    Applied =>
        LET words == split(stdout) IN
        (/\ words.tag = "Ok"
         /\ \A i \in FlagIdx(words.val, "L") \cup FlagIdx(words.val, "I") :
                ~Unclosed(Drop2(words.val[i])))
            => /\ result.tag = "Ok"
               /\ ExactlyStripped(result.val.libs, words.val, "l")
               /\ ExactlyStripped(result.val.lib_paths, words.val, "L")
               /\ ExactlyStripped(result.val.include_paths, words.val, "I")

\* C4 amended: for a line that tokenizes, the libraries are exactly the -l
\* tokens with the prefix removed; the library and header paths are the -L and
\* -I tokens with the prefix removed and then one layer of closed quotes
\* removed, a path whose opening quote is not closed being left out; all in
\* token order, duplicates kept, and other tokens contribute nothing.
C4_ListsAreStrippedAndUnquoted ==
    Applied =>
        LET words == split(stdout) IN
        words.tag = "Ok" =>
            /\ result.tag = "Ok"
            /\ ExactlyStripped(result.val.libs, words.val, "l")
            /\ StrippedAndUnquoted(result.val.lib_paths, words.val, "L")
            /\ StrippedAndUnquoted(result.val.include_paths, words.val, "I")

C4_Witness ==
    /\ Applied
    /\ stdout = Join(<<WordLibFoo, WordLibDirUsr, WordIncUsr>>)
    /\ result = Ok(Library("oshcc", <<<<"f", "o", "o">>>>,
                           <<<<"/", "u", "s", "r", "/", "l", "i", "b">>>>,
                           <<<<"/", "u", "s", "r", "/", "i", "n", "c", "l", "u", "d", "e">>>>))

\* C5: a -L or -I flag that carries a shell-quoted path with a space inside
\* yields that path as one entry, the space kept and the quotes gone; the
\* other path list gets nothing from it.
C5_QuotedPathIsOneEntry ==
    Applied =>
        /\ result.tag = "Ok"
        /\ quoted.flag = "L" =>
              /\ result.val.lib_paths = <<Encode(quoted.path)>>
              /\ result.val.include_paths = <<>>
        /\ quoted.flag = "I" =>
              /\ result.val.include_paths = <<Encode(quoted.path)>>
              /\ result.val.lib_paths = <<>>

C5_Witness ==
    /\ Applied
    /\ quoted.flag = "L" /\ quoted.quote = DQ /\ quoted.form = "after"
    /\ quoted.path = <<"/", "a", SP, "a">>
    /\ result.val.lib_paths = <<<<"/", "a", SP, "a">>>>

\* C6 as claimed: when the path of a -L or -I token opens a quote that its last
\* character does not close, the probe fails; it returns no successful result.
C6_UnclosedPathFailsProbe ==
    Applied =>
        LET words == split(stdout) IN
        (/\ words.tag = "Ok"
         /\ \E i \in FlagIdx(words.val, "L") \cup FlagIdx(words.val, "I") :
                Unclosed(Drop2(words.val[i])))
            => result.tag # "Ok"

----------------------------------------------------------------------------
(* Properties of main (Spec).                                              *)

Times(name) == Cardinality({j \in 1..Len(trace) : trace[j].step = name})

\* Every step that failed is the last step executed, was executed once, and
\* left the build aborted at it (or, for the spawn, about to be, with the
\* io::Error returned to main); a build that is done had no failure.
FailureIsFinal ==
    /\ \A i \in 1..Len(trace) :
          ~trace[i].ok =>
              /\ i = Len(trace)
              /\ Times(trace[i].step) = 1
              /\ pc \in {"returned", "aborted"}
              /\ pc = "returned" => (trace[i].step = "spawn" /\ result.tag = "Err")
              /\ pc = "aborted" => abortAt = trace[i].step
    /\ pc = "aborted" => (Len(trace) > 0 /\ ~trace[Len(trace)].ok)

\* C7: a failure to spawn the wrapper, output that is not valid text, output
\* with unbalanced quoting, a failure of binding generation and a failure to
\* write the bindings each end the build aborted: the failed step was executed
\* exactly once, no step is executed after it, and the aborted build takes no
\* further step (no retry, no recovery).
C7_FailureAbortsBuild ==
    /\ []FailureIsFinal
    /\ [][(pc = "returned" /\ result.tag # "Ok") => pc' = "aborted"]_vars
    /\ [][pc = "aborted" => vars' = vars]_vars

C7_Witness ==
    /\ pc = "aborted" /\ abortAt = "libs"
    /\ stdout = WordUnbalanced
    /\ trace = <<Step("spawn", TRUE), Step("decode", TRUE), Step("libs", FALSE)>>
    /\ emitted = <<>>

\* The directives of a Library, in the order main prints them.
ExpectedDirectives(lib) ==
    <<RerunDirective>>
    \o [i \in 1..Len(lib.lib_paths) |->
            Directive("cargo:rustc-link-search", lib.lib_paths[i])]
    \o [i \in 1..Len(lib.include_paths) |->
            Directive("cargo:include", lib.include_paths[i])]
    \o [i \in 1..Len(lib.libs) |-> Directive("cargo:rustc-link-lib", lib.libs[i])]

IsPrefix(a, b) == Len(a) <= Len(b) /\ SubSeq(b, 1, Len(a)) = a

\* C9: no directive is printed before the probe and binding generation have
\* both succeeded, so a build aborted in either has printed none; the bindings
\* are written only after every directive is printed; the directives come in
\* the order rerun-if-changed, library paths, include paths, libraries.
C9_DirectivesOrder ==
    /\ pc \in {"main", "spawn", "wait", "decode", "libs", "libdirs", "headerdirs",
               "construct", "returned", "generate"} => emitted = <<>>
    /\ (pc = "aborted" /\ abortAt \in {"spawn", "decode", "libs", "libdirs",
                                        "headerdirs", "generate"}) => emitted = <<>>
    /\ (pc \in {"outdir", "write", "done"}
            \/ (pc = "aborted" /\ abortAt \in {"outdir", "write"}))
          => emitted = ExpectedDirectives(oshmem)
    /\ Times("write") > 0 => emitted = ExpectedDirectives(oshmem)
    /\ IsPrefix(emitted, ExpectedDirectives(oshmem))

C9_Witness ==
    /\ pc = "aborted" /\ abortAt = "write"
    /\ stdout = Join(<<WordLibFoo, WordLibDirUsr>>)
    /\ emitted = <<RerunDirective,
                   Directive("cargo:rustc-link-search",
                             <<"/", "u", "s", "r", "/", "l", "i", "b">>),
                   Directive("cargo:rustc-link-lib", <<"f", "o", "o">>)>>

\* The probe is over: main holds, or is about to be given, what it returned.
ProbeOver == pc \notin {"main", "spawn", "wait", "decode", "libs", "libdirs",
                        "headerdirs", "construct"}

\* C10: when the wrapper was spawned and its standard output is valid text
\* with balanced quoting, the probe succeeds whatever the exit status and the
\* standard error; with no -l, -L or -I token in the output the three lists
\* are empty; and the build goes on to binding generation.
C10_ExitStatusIgnored ==
    /\ [](  (proc = "exited" /\ from_utf8(stdout).tag = "Ok" /\ split(stdout).tag = "Ok")
            => /\ ~(pc = "aborted" /\ abortAt \in {"spawn", "decode", "libs", "libdirs",
                                                    "headerdirs"})
               /\ ProbeOver =>
                    /\ result.tag = "Ok"
                    /\ LET toks == split(stdout).val IN
                       FlagIdx(toks, "l") \cup FlagIdx(toks, "L") \cup FlagIdx(toks, "I") = {}
                          => /\ result.val.libs = <<>>
                             /\ result.val.lib_paths = <<>>
                             /\ result.val.include_paths = <<>>)
    /\ [][(pc = "returned" /\ result.tag = "Ok")
            => (pc' = "generate" /\ oshmem' = result.val)]_vars

C10_Witness ==
    /\ pc = "generate"
    /\ status = 1 /\ stderr # <<>> /\ stdout = <<>>
    /\ oshmem = Library("oshcc", <<>>, <<>>, <<>>)

----------------------------------------------------------------------------
(* Properties of probe_via_oshcc (SpecProbes).                             *)

\* C8: a probe spawns exactly one process; it decodes, tokenizes and
\* classifies only once that process has exited and its output is captured;
\* what it returns is a function of the path and the captured output alone,
\* so probes given the same path and output return the same, whatever ran
\* before.
C8_ProbeSequentialStateless ==
    /\ spawns <= 1
    /\ pc \in {"wait", "decode", "libs", "libdirs", "headerdirs", "construct"}
          => spawns = 1
    /\ pc \in {"decode", "libs", "libdirs", "headerdirs", "construct"}
          => proc = "exited"
    /\ (pc = "returned" /\ result.tag = "Ok") => (proc = "exited" /\ spawns = 1)
    /\ \A h1, h2 \in history : (h1[1] = h2[1] /\ h1[2] = h2[2]) => h1[3] = h2[3]
    /\ (pc = "returned" /\ proc = "exited") =>
          /\ result = probe_closure(oshcc, stdout)
          /\ \A h \in history : (h[1] = oshcc /\ h[2] = stdout) => h[3] = result
    /\ pc = "aborted" =>
          /\ probe_closure(oshcc, stdout).tag = "Panic"
          /\ \A h \in history : ~(h[1] = oshcc /\ h[2] = stdout)

C8_Witness ==
    /\ pc = "idle" /\ probes = 2
    /\ Times("headerdirs") = 2
    /\ history = {<<"mpicc", WordLibFoo,
                    Ok(Library("mpicc", <<<<"f", "o", "o">>>>, <<>>, <<>>))>>}

====
